---- MODULE Spec2Model ----
(***************************************************************************)
(* Model of src/eda/soporte_preprocesamiento.py: the dataset profiler      *)
(* exploracion_datos, the Visualizador facade (of which only               *)
(* analisis_temporal writes to the dataset) and the chi-squared analyzer   *)
(* detectar_orden_cat_bina.                                                *)
(*                                                                         *)
(* The module is written for a notebook: `display` is the IPython builtin. *)
(* pandas and scipy are modelled by what the calls made here do:           *)
(*   pd.crosstab            counts over the rows where both values are     *)
(*                          present, labels sorted, no zero-padding;       *)
(*   chi2_contingency       scipy.stats.contingency (correction=True by    *)
(*                          default: Yates' correction when dof = 1);      *)
(*   pd.Categorical         values outside `categories` become missing,    *)
(*                          duplicate categories are rejected.             *)
(* Numbers are exact rationals <<numerator, denominator>>.  A p-value is   *)
(* kept in units of 1/PUnit, rounded down onto the grid SfLevels of        *)
(* probability levels: for a significance level s on the grid, p < s holds *)
(* of the rounded value exactly when it holds of the real one.             *)
(***************************************************************************)
EXTENDS Integers, Sequences, FiniteSets, TLC

VARIABLES df,      \* the caller's DataFrame
          pre,     \* the DataFrame as it was when the last call began
          call,    \* the last call: its name and arguments
          out,     \* what the last call printed and displayed, in order
          tests,   \* the tuples chi2_contingency returned during the last call
          exc      \* how the last call ended: NoExc or the exception raised

vars == <<df, pre, call, out, tests, exc>>

----------------------------------------------------------------------------
(* Bounds and input sets *)

\* Rows of a dataset handed to one operation (SpecAnalyzer, SpecProfiler) and of a
\* dataset that goes through sequences of calls of all the operations (Spec).
MaxRows == 3

MaxRowsSeq == 2

NULL == "NaN"

ColumnNames == <<"a", "b", "y">>
Unknown == "zz"

CellValues == [a |-> {NULL, "x"}, b |-> {NULL, "Feb", "Jan", "Zz"}, y |-> {"0", "1"}]

Dtype(kind) == [kind |-> kind, categories |-> <<>>]

\* CategoricalDtype(categories=order, ordered=True)
CategoricalDtype(order) == [kind |-> "category", categories |-> order]

InitDtypes == [a |-> Dtype("object"), b |-> Dtype("object"), y |-> Dtype("int64")]

\* Python's order of the labels used here (digits < upper case < lower case).
ValueOrder == <<"0", "1", "Feb", "Jan", "Zz", "x">>

PUnit == 10000

Range(s) == {s[i] : i \in DOMAIN s}

RankTable ==
    [v \in Range(ValueOrder) \cup {NULL} |->
        IF v = NULL THEN 0 ELSE CHOOSE k \in DOMAIN ValueOrder : ValueOrder[k] = v]

Rank(v) == RankTable[v]

RECURSIVE SumSeq(_)
SumSeq(s) == IF s = <<>> THEN 0 ELSE Head(s) + SumSeq(Tail(s))

RECURSIVE ProdSeq(_)
ProdSeq(s) == IF s = <<>> THEN 1 ELSE Head(s) * ProdSeq(Tail(s))

Abs(x) == IF x < 0 THEN -x ELSE x

Min(x, y) == IF x < y THEN x ELSE y

Sign(x) == IF x > 0 THEN 1 ELSE IF x < 0 THEN -1 ELSE 0

\* The labels of a set in increasing order (the order of a pandas index).
RECURSIVE SortedLabels(_)
SortedLabels(S) ==
    IF S = {} THEN <<>>
    ELSE LET m == CHOOSE v \in S : \A w \in S : Rank(v) <= Rank(w)
         IN <<m>> \o SortedLabels(S \ {m})

----------------------------------------------------------------------------
(* The dataset *)

RowKinds == [a : CellValues.a, b : CellValues.b, y : CellValues.y]

RowRank(r) == (Rank(r.a) * 8 + Rank(r.b)) * 8 + Rank(r.y)

\* Row order carries no meaning for any operation modelled here: the inputs are
\* the datasets of at most MaxRows rows, one per multiset of rows.
Datasets(maxRows) ==
    { [columns |-> ColumnNames, dtypes |-> InitDtypes, rows |-> rs] :
        rs \in { s \in UNION { [1..n -> RowKinds] : n \in 0..maxRows } :
                    \A i \in 1..(Len(s) - 1) : RowRank(s[i]) <= RowRank(s[i + 1]) } }

NRows(d) == Len(d.rows)

HasColumn(d, c) == c \in Range(d.columns)

NoExc == [type |-> "None", arg |-> ""]

KeyError(name) == [type |-> "KeyError", arg |-> name]

ValueError(msg) == [type |-> "ValueError", arg |-> msg]

----------------------------------------------------------------------------
(* pd.crosstab(df[categoria], df[var_respuesta]) *)

\* Rows where either value is missing are dropped; the row and column labels are
\* the values observed in what is left, sorted; a cell counts the rows with that
\* pair of values.
Crosstab(d, c, r) ==
    LET keep    == {k \in 1..NRows(d) : d.rows[k][c] # NULL /\ d.rows[k][r] # NULL}
        index   == SortedLabels({d.rows[k][c] : k \in keep})
        columns == SortedLabels({d.rows[k][r] : k \in keep})
    IN [index   |-> index,
        columns |-> columns,
        values  |-> [i \in 1..Len(index) |-> [j \in 1..Len(columns) |->
                       Cardinality({k \in keep : /\ d.rows[k][c] = index[i]
                                                 /\ d.rows[k][r] = columns[j]})]]]

NIndex(t) == Len(t.index)

NColumns(t) == Len(t.columns)

Size(t) == NIndex(t) * NColumns(t)

RowTotals(t) == [i \in 1..NIndex(t) |-> SumSeq(t.values[i])]

ColTotals(t) == [j \in 1..NColumns(t) |-> SumSeq([i \in 1..NIndex(t) |-> t.values[i][j]])]

GrandTotal(t) == SumSeq(RowTotals(t))

----------------------------------------------------------------------------
(* scipy.stats.chi2_contingency(observed), correction=True, lambda_=None *)

\* expected_freq: the outer product of the margins over the grand total, each
\* cell the rational num[i][j] / den.
ExpectedFreqOverCells(t) ==
    LET rs == RowTotals(t)
        cs == ColTotals(t)
    IN [num |-> [i \in 1..NIndex(t) |-> [j \in 1..NColumns(t) |-> rs[i] * cs[j]]],
        den |-> Size(t)]

ExpectedFreq(t) ==
    LET rs == RowTotals(t)
        cs == ColTotals(t)
    IN [num |-> [i \in 1..NIndex(t) |-> [j \in 1..NColumns(t) |-> rs[i] * cs[j]]],
        den |-> SumSeq(rs)]

\* dof = expected.size - sum(expected.shape) + expected.ndim - 1
Dof(t) == Size(t) - (NIndex(t) + NColumns(t)) + 2 - 1

\* Yates' correction, applied when dof = 1: every observed count is moved towards
\* its expected value by min(0.5, |expected - observed|).  Counts are returned in
\* units of 1 / (2 * GrandTotal).
YatesAlwaysHalf(t, e) ==
    LET n == e.den
    IN [i \in 1..NIndex(t) |-> [j \in 1..NColumns(t) |->
          LET diff == 2 * (e.num[i][j] - n * t.values[i][j])
          IN 2 * n * t.values[i][j] + n * Sign(diff)]]

YatesObserved(t, e) ==
    LET n == e.den
    IN [i \in 1..NIndex(t) |-> [j \in 1..NColumns(t) |->
          LET diff == 2 * (e.num[i][j] - n * t.values[i][j])
          IN 2 * n * t.values[i][j] + Min(n, Abs(diff)) * Sign(diff)]]

PlainObserved(t, e) ==
    [i \in 1..NIndex(t) |-> [j \in 1..NColumns(t) |-> 2 * e.den * t.values[i][j]]]

\* power_divergence with lambda_ = 1 (Pearson): the sum over the cells of
\* (observed - expected)^2 / expected, for observed counts obs2n in units of
\* 1 / (2 * GrandTotal); the rational <<numerator, denominator>>.
PowerDivergence(t, obs2n) ==
    LET n  == GrandTotal(t)
        rs == RowTotals(t)
        cs == ColTotals(t)
        pr == ProdSeq(rs)
        pc == ProdSeq(cs)
    IN << SumSeq([i \in 1..NIndex(t) |-> SumSeq([j \in 1..NColumns(t) |->
                    LET x == obs2n[i][j] - 2 * rs[i] * cs[j]
                    IN x * x * (pr \div rs[i]) * (pc \div cs[j])])]),
          4 * n * pr * pc >>

\* Probability levels, in units of 1 / PUnit, and for each number of degrees of
\* freedom the value at which the chi-squared survival function takes that
\* level, in thousandths.
SfLevels == <<10000, 5000, 1000, 500, 100, 10>>

CriticalValues == << <<0, 455, 2706, 3841, 6635, 10828>>,
                     <<0, 1386, 4605, 5991, 9210, 13816>>,
                     <<0, 2366, 6251, 7815, 11345, 16266>>,
                     <<0, 3357, 7779, 9488, 13277, 18467>> >>

\* chi2.sf(statistic, dof), rounded down onto SfLevels (0 below the last level):
\* the greatest level whose critical value the statistic does not exceed.
Sf(stat, dof) ==
    LET reached == {k \in 1..Len(SfLevels) :
                       stat[1] * 1000 <= CriticalValues[dof][k] * stat[2]}
    IN IF reached = {} THEN 0
       ELSE SfLevels[CHOOSE k \in reached : \A m \in reached : k <= m]

Chi2Statistic(t, e, dof) ==
    IF dof = 1 THEN PowerDivergence(t, YatesObserved(t, e))
    ELSE PowerDivergence(t, PlainObserved(t, e))

Chi2Contingency(t) ==
    IF Size(t) = 0
    THEN [exc |-> ValueError("No data; observed has size 0.")]
    ELSE
    LET expected == ExpectedFreq(t)
        dof      == Dof(t)
        chi2     == Chi2Statistic(t, expected, dof)
    IN
    IF \E i \in 1..NIndex(t), j \in 1..NColumns(t) : expected.num[i][j] = 0
    THEN [exc |-> ValueError("The internally computed table of expected frequencies has a zero element.")]
    ELSE IF dof = 0
    THEN [exc |-> NoExc, chi2 |-> <<0, 1>>, p |-> PUnit, dof |-> dof, expected |-> expected]
    ELSE [exc |-> NoExc, chi2 |-> chi2, p |-> Sf(chi2, dof), dof |-> dof,
          expected |-> expected]

\* DataFrame.round(): numpy rounds halves to the even neighbour.
RoundHalfEven(num, den) ==
    LET q == num \div den
        r == num % den
    IN IF 2 * r < den THEN q
       ELSE IF 2 * r > den THEN q + 1
       ELSE IF q % 2 = 0 THEN q ELSE q + 1

RoundedExpected(e) ==
    [i \in DOMAIN e.num |-> [j \in DOMAIN e.num[i] |-> RoundHalfEven(e.num[i][j], e.den)]]

----------------------------------------------------------------------------
(* detectar_orden_cat_bina(df, lista_cat, var_respuesta, sig_level) *)

Upper == [a |-> "A", b |-> "B", y |-> "Y", zz |-> "ZZ"]

\* for categoria in lista_cat: the k-th item of the loop
LoopItemReversed(lista_cat, k) == lista_cat[Len(lista_cat) + 1 - k]

LoopItem(lista_cat, k) == lista_cat[k]

\* if p < sig_level
SignificantOrEqual(p, sig_level) == p <= sig_level

Significant(p, sig_level) == p < sig_level

\* One pass of the loop body for lista_cat[k], then the rest of the loop.  acc
\* holds what was emitted (out) and the tuples returned by chi2_contingency
\* (tests) so far; an exception ends the call with what was emitted before it.
RECURSIVE EvaluarDesde(_, _, _, _, _, _)
EvaluarDesde(d, lista_cat, var_respuesta, sig_level, k, acc) ==
    IF k > Len(lista_cat) THEN [out |-> acc.out, tests |-> acc.tests, exc |-> NoExc]
    ELSE
    LET categoria == LoopItem(lista_cat, k)
        printed   == Append(acc.out, [ev |-> "evaluando", pos |-> k, col |-> Upper[categoria]])
    IN
    IF ~HasColumn(d, categoria)
    THEN [out |-> printed, tests |-> acc.tests, exc |-> KeyError(categoria)]
    ELSE IF ~HasColumn(d, var_respuesta)
    THEN [out |-> printed, tests |-> acc.tests, exc |-> KeyError(var_respuesta)]
    ELSE
    LET df_crosstab == Crosstab(d, categoria, var_respuesta)
        displayed   == Append(printed, [ev |-> "crosstab", pos |-> k, col |-> categoria,
                                        table |-> df_crosstab])
        r           == Chi2Contingency(df_crosstab)
    IN
    IF r.exc # NoExc
    THEN [out |-> displayed, tests |-> acc.tests, exc |-> r.exc]
    ELSE
    LET t == [pos |-> k, col |-> categoria, observed |-> df_crosstab, chi2 |-> r.chi2,
              p |-> r.p, dof |-> r.dof, expected |-> r.expected]
        decided ==
            IF Significant(r.p, sig_level)
            THEN displayed \o
                 << [ev |-> "SI", pos |-> k, col |-> Upper[categoria], p |-> r.p],
                    [ev |-> "expected", pos |-> k, col |-> categoria,
                     table |-> [index |-> df_crosstab.index,
                                columns |-> df_crosstab.columns,
                                values |-> RoundedExpected(r.expected)]] >>
            ELSE Append(displayed, [ev |-> "NO", pos |-> k, col |-> Upper[categoria], p |-> r.p])
    IN EvaluarDesde(d, lista_cat, var_respuesta, sig_level, k + 1,
                    [out   |-> Append(decided, [ev |-> "separador", pos |-> k]),
                     tests |-> Append(acc.tests, t)])

ListaCatInputs ==
    { <<"a", "b">>, <<"b", "a">>, <<"b", "b">>, <<Unknown, "b">>, <<"b", Unknown>> }

\* Significance levels, in units of 1 / PUnit: 0.05 (the default), 0.5 and 1.0
\* (the code accepts any number).
SigLevelInputs == {500, 5000, 10000}

\* <<lista_cat, var_respuesta, sig_level>>
AnalyzerInputs ==
    (ListaCatInputs \X {"y"} \X SigLevelInputs) \cup { << <<"a", "b">>, Unknown, 500 >> }

\* The analyzer with the rows that hold a missing value dropped in place first.
detectar_orden_cat_bina_dropna ==
    \E args \in AnalyzerInputs :
        LET clean == [df EXCEPT !.rows = SelectSeq(df.rows, LAMBDA r :
                                            \A c \in Range(df.columns) : r[c] # NULL)]
        IN \E r \in { EvaluarDesde(clean, args[1], args[2], args[3], 1,
                                   [out |-> <<>>, tests |-> <<>>]) } :
           /\ call' = [op |-> "detectar_orden_cat_bina", lista_cat |-> args[1],
                       var_respuesta |-> args[2], sig_level |-> args[3]]
           /\ out' = r.out
           /\ tests' = r.tests
           /\ exc' = r.exc
           /\ pre' = df
           /\ df' = clean

detectar_orden_cat_bina ==
    \E args \in AnalyzerInputs :
        LET lista_cat     == args[1]
            var_respuesta == args[2]
            sig_level     == args[3]
        IN \E r \in { EvaluarDesde(df, lista_cat, var_respuesta, sig_level, 1,
                                   [out |-> <<>>, tests |-> <<>>]) } :
           /\ call' = [op |-> "detectar_orden_cat_bina", lista_cat |-> lista_cat,
                       var_respuesta |-> var_respuesta, sig_level |-> sig_level]
           /\ out' = r.out
           /\ tests' = r.tests
           /\ exc' = r.exc
           /\ pre' = df
           /\ UNCHANGED df

----------------------------------------------------------------------------
(* exploracion_datos(dataframe, nunique, info) *)

ColumnValues(d, c) == [k \in 1..NRows(d) |-> d.rows[k][c]]

\* dataframe.isnull().sum()[c]
NullCount(d, c) == Cardinality({k \in 1..NRows(d) : d.rows[k][c] = NULL})

\* dataframe.nunique()[c]: missing values are not counted
NUnique(d, c) == Cardinality(Range(ColumnValues(d, c)) \ {NULL})

\* dataframe.duplicated().sum(): the rows equal to an earlier row
Duplicated(d) == Cardinality({k \in 1..NRows(d) : \E m \in 1..(k - 1) : d.rows[m] = d.rows[k]})

IsNumeric(d, c) == d.dtypes[c].kind = "int64"

IsObject(d, c) == d.dtypes[c].kind = "object"

NumericColumns(d) == SelectSeq(d.columns, LAMBDA c : IsNumeric(d, c))

ObjectColumns(d) == SelectSeq(d.columns, LAMBDA c : IsObject(d, c))

\* The rows of a describe() table: the count of present values and the number of
\* distinct ones (the other statistics are functions of the same cells).
DescribeRows(d, cols) ==
    [k \in 1..Len(cols) |-> [col   |-> cols[k],
                             count |-> NRows(d) - NullCount(d, cols[k]),
                             nuniq |-> NUnique(d, cols[k])]]

\* a / b >= c / e, for rationals with positive denominators
RatGeq(x, y) == x[1] * y[2] >= y[1] * x[2]

WithNullsOrNot(d) == SelectSeq(d.columns, LAMBDA c : NullCount(d, c) >= 0)

\* dataframe_nulos[dataframe_nulos.values > 0]
WithNulls(d) == SelectSeq(d.columns, LAMBDA c : NullCount(d, c) > 0)

\* (... / dataframe.shape[0]) * 100
NullPercent(d, c) == <<NullCount(d, c) * 100, NRows(d)>>

\* .sort_values(by='%_nulos', ascending=False): descending; the sort is not
\* stable, so equal percentages come in any order.
NullReports(d) ==
    LET listed == WithNulls(d)
        n      == Len(listed)
    IN { [k \in 1..n |-> [col |-> listed[perm[k]], pct |-> NullPercent(d, listed[perm[k]])]] :
            perm \in { q \in [1..n -> 1..n] :
                         /\ \A i, j \in 1..n : i # j => q[i] # q[j]
                         /\ \A i \in 1..(n - 1) :
                              RatGeq(NullPercent(d, listed[q[i]]),
                                     NullPercent(d, listed[q[i + 1]])) } }

Exploracion(d, nunique, info, nulos) ==
    LET head == << [ev |-> "shape", rows |-> NRows(d), cols |-> Len(d.columns)],
                   [ev |-> "duplicados", n |-> Duplicated(d)],
                   [ev |-> "describe",
                    table |-> DescribeRows(d, IF NumericColumns(d) # <<>>
                                              THEN NumericColumns(d) ELSE d.columns)] >>
    IN
    IF ObjectColumns(d) = <<>>
    THEN [out |-> head, exc |-> ValueError("No objects to concatenate")]
    ELSE [out |-> head
                  \o << [ev |-> "describe_O", table |-> DescribeRows(d, ObjectColumns(d))],
                        [ev |-> "nulos", table |-> nulos] >>
                  \o (IF nunique
                      THEN << [ev |-> "nunique", table |-> DescribeRows(d, d.columns)] >>
                      ELSE <<>>)
                  \o (IF info
                      THEN << [ev |-> "info", table |-> DescribeRows(d, d.columns),
                               dtypes |-> d.dtypes] >>
                      ELSE <<>>),
          exc |-> NoExc]

exploracion_datos ==
    \E nunique \in BOOLEAN, info \in BOOLEAN :
      \E nulos \in NullReports(df) :
        \E r \in { Exploracion(df, nunique, info, nulos) } :
           /\ call' = [op |-> "exploracion_datos", nunique |-> nunique, info |-> info]
           /\ out' = r.out
           /\ exc' = r.exc
           /\ tests' = <<>>
           /\ pre' = df
           /\ UNCHANGED df

----------------------------------------------------------------------------
(* Visualizador: self.dataframe is the caller's DataFrame itself, not a copy *)

Months == <<"Jan", "Feb", "Mar", "Apr", "May", "Jun", "Jul", "Aug", "Sep", "Oct", "Nov", "Dec">>

HasDuplicates(s) == \E i, j \in DOMAIN s : i # j /\ s[i] = s[j]

CategoricalKeepingAll(values, order) == values

\* pd.Categorical(values, categories=order, ordered=True): a value that is not
\* one of the categories becomes missing.
Categorical(values, order) ==
    [k \in DOMAIN values |-> IF values[k] \in Range(order) THEN values[k] ELSE NULL]

\* self.dataframe[c] = values, with the dtype of the values
SetColumn(d, c, values, dtype) ==
    [d EXCEPT !.rows   = [k \in 1..NRows(d) |-> [d.rows[k] EXCEPT ![c] = values[k]]],
              !.dtypes = [d.dtypes EXCEPT ![c] = dtype]]

Num(v) == IF v = "1" THEN 1 ELSE 0

\* Series.mean(), the rational sum / count over the present values
Mean(d, c) ==
    LET present == SelectSeq(ColumnValues(d, c), LAMBDA v : v # NULL)
    IN << SumSeq([k \in DOMAIN present |-> Num(present[k])]), Len(present) >>

AnalisisTemporal(d, var_respuesta, var_temporal, order) ==
    LET figure == << [ev |-> "figure"] >>
    IN
    IF ~HasColumn(d, var_temporal)
    THEN [df |-> d, out |-> figure, exc |-> KeyError(var_temporal)]
    ELSE IF HasDuplicates(order)
    THEN [df |-> d, out |-> figure, exc |-> ValueError("Categorical categories must be unique")]
    ELSE
    LET written == SetColumn(d, var_temporal,
                             Categorical(ColumnValues(d, var_temporal), order),
                             CategoricalDtype(order))
    IN
    IF ~HasColumn(written, var_respuesta)
    THEN [df |-> written, out |-> figure, exc |-> ValueError("Could not interpret value for y")]
    ELSE [df  |-> written,
          out |-> figure \o << [ev |-> "lineplot", x |-> var_temporal, y |-> var_respuesta],
                               [ev |-> "axhline", mean |-> Mean(written, var_respuesta)],
                               [ev |-> "despine"],
                               [ev |-> "xlabel"] >>,
          exc |-> NoExc]

OrderInputs == { Months, <<"Zz", "Jan">>, <<"Jan", "Jan">> }

\* <<var_respuesta, var_temporal, order>>
TemporalInputs ==
    ({"y"} \X {"a", "b"} \X OrderInputs) \cup { <<"y", Unknown, Months>>, <<Unknown, "b", Months>> }

analisis_temporal ==
    \E args \in TemporalInputs :
      \E r \in { AnalisisTemporal(df, args[1], args[2], args[3]) } :
         /\ call' = [op |-> "analisis_temporal", var_respuesta |-> args[1],
                     var_temporal |-> args[2], order |-> args[3]]
         /\ df' = r.df
         /\ out' = r.out
         /\ exc' = r.exc
         /\ tests' = <<>>
         /\ pre' = df

----------------------------------------------------------------------------
(* Visualizador: the plotting methods.  What a method hands to the plotting      *)
(* library is recorded as the sequence of its plot calls.                        *)

\* math.ceil(n / 2)
CeilHalf(n) == (n + 1) \div 2

IsCategory(d, c) == d.dtypes[c].kind = "category"

\* plt.subplots(nrows, ncols) rejects a grid without rows or columns
SubplotsFails(nrows, ncols) == nrows <= 0 \/ ncols <= 0

SubplotsError == ValueError("Number of rows and columns must be a positive integer")

PlotEach(kind, cols) == [k \in 1..Len(cols) |-> [ev |-> kind, ax |-> k - 1, col |-> cols[k]]]

separar_dataframes ==
    /\ call' = [op |-> "separar_dataframes"]
    /\ out' = << [ev |-> "return", numericas |-> NumericColumns(df),
                  categoricas |-> ObjectColumns(df)] >>
    /\ exc' = NoExc
    /\ tests' = <<>>
    /\ pre' = df
    /\ UNCHANGED df

plot_numericas ==
    LET lista_num == NumericColumns(df)
    IN /\ call' = [op |-> "plot_numericas"]
       /\ IF SubplotsFails(2, CeilHalf(Len(lista_num)))
          THEN out' = <<>> /\ exc' = SubplotsError
          ELSE out' = PlotEach("histplot", lista_num) /\ exc' = NoExc
       /\ tests' = <<>>
       /\ pre' = df
       /\ UNCHANGED df

plot_categoricas ==
    LET lista_cat == ObjectColumns(df)
    IN /\ call' = [op |-> "plot_categoricas"]
       /\ IF SubplotsFails(2, CeilHalf(Len(lista_cat)))
          THEN out' = <<>> /\ exc' = SubplotsError
          ELSE out' = PlotEach("countplot", lista_cat) /\ exc' = NoExc
       /\ tests' = <<>>
       /\ pre' = df
       /\ UNCHANGED df

\* One figure per numeric column; with a single categorical column plt.subplots
\* returns one Axes, axes.flat fails and the except branch draws one scatter plot.
visualizar_categoricas_numericas ==
    LET categorical_columns == SelectSeq(df.columns, LAMBDA c : IsObject(df, c) \/ IsCategory(df, c))
        numerical_columns   == NumericColumns(df)
    IN /\ call' = [op |-> "visualizar_categoricas_numericas"]
       /\ out' = IF Len(categorical_columns) > 0
                 THEN [k \in 1..Len(numerical_columns) |->
                         [ev  |-> "scatterplots", x |-> numerical_columns[k],
                          hue |-> IF Len(categorical_columns) = 1
                                  THEN << categorical_columns[1] >>
                                  ELSE categorical_columns]]
                 ELSE << [ev |-> "print_no_categoricas"] >>
       /\ exc' = NoExc
       /\ tests' = <<>>
       /\ pre' = df
       /\ UNCHANGED df

plot_relacion ==
    \E vr \in {"y"} :
       /\ call' = [op |-> "plot_relacion", vr |-> vr]
       /\ IF SubplotsFails(CeilHalf(Len(df.columns)), 2)
          THEN out' = <<>> /\ exc' = SubplotsError
          ELSE /\ out' = [k \in 1..Len(df.columns) |->
                            [ev |-> IF df.columns[k] = vr THEN "delaxes"
                                    ELSE IF IsNumeric(df, df.columns[k]) THEN "histplot"
                                    ELSE IF IsObject(df, df.columns[k]) THEN "countplot"
                                    ELSE "title_only",
                             ax |-> k - 1, col |-> df.columns[k]]]
               /\ exc' = NoExc
       /\ tests' = <<>>
       /\ pre' = df
       /\ UNCHANGED df

deteccion_outliers ==
    LET lista_num == NumericColumns(df)
    IN /\ call' = [op |-> "deteccion_outliers"]
       /\ IF SubplotsFails(2, CeilHalf(Len(lista_num)))
          THEN out' = <<>> /\ exc' = SubplotsError
          ELSE /\ out' = PlotEach("boxplot", lista_num)
                         \o (IF Len(lista_num) % 2 # 0 THEN << [ev |-> "delaxes_last"] >> ELSE <<>>)
               /\ exc' = NoExc
       /\ tests' = <<>>
       /\ pre' = df
       /\ UNCHANGED df

correlacion ==
    /\ call' = [op |-> "correlacion"]
    /\ out' = << [ev |-> "figure"], [ev |-> "heatmap", cols |-> NumericColumns(df)] >>
    /\ exc' = NoExc
    /\ tests' = <<>>
    /\ pre' = df
    /\ UNCHANGED df

----------------------------------------------------------------------------
(* Specifications *)

InitWith(datasets) ==
    /\ df \in datasets
    /\ pre = df
    /\ call = [op |-> "none"]
    /\ out = <<>>
    /\ tests = <<>>
    /\ exc = NoExc

Init == InitWith(Datasets(MaxRowsSeq))

InitOne == InitWith(Datasets(MaxRows))

Next ==
    \/ exploracion_datos
    \/ detectar_orden_cat_bina
    \/ analisis_temporal
    \/ separar_dataframes
    \/ plot_numericas
    \/ plot_categoricas
    \/ visualizar_categoricas_numericas
    \/ plot_relacion
    \/ deteccion_outliers
    \/ correlacion

\* Any sequence of calls of the operations on one dataset.
Spec == Init /\ [][Next]_vars

\* Calls of the analyzer on a dataset.
SpecAnalyzer == InitOne /\ [][detectar_orden_cat_bina]_vars

\* Calls of the profiler on a dataset.
SpecProfiler == InitOne /\ [][exploracion_datos]_vars

----------------------------------------------------------------------------
(* Properties *)

IsAnalyzerCall == call.op = "detectar_orden_cat_bina"

IsProfilerCall == call.op = "exploracion_datos"

IsTemporalCall == call.op = "analisis_temporal"

\* The positions in out of the events of kind ev emitted for list position k.
EventsOf(k, ev) == {i \in DOMAIN out : out[i].pos = k /\ out[i].ev = ev}

UnknownNames == {k \in DOMAIN call.lista_cat : ~HasColumn(df, call.lista_cat[k])}

RatEq(x, y) == x[1] * y[2] = y[1] * x[2]

\* C1: when a name of lista_cat is not a column of the dataset and the call ends
\* in the KeyError, the error names an unknown name of the list and, at that
\* moment, no contingency table has been built or displayed for any column of
\* the list, wherever the unknown name stands in the list.
C1_UnknownColumnBeforeAnyTable ==
    (IsAnalyzerCall /\ UnknownNames # {} /\ exc.type = "KeyError")
        => /\ \E k \in UnknownNames : exc.arg = call.lista_cat[k]
           /\ \A i \in DOMAIN out : out[i].ev # "crosstab"
           /\ tests = <<>>

Degenerate(t) == NIndex(t) < 2 \/ NColumns(t) < 2

\* C2: for every column whose contingency table is not empty and has a single
\* row (one observed value) or a single column (one observed response), what is
\* reported is a "cannot test" outcome of its own: no "SI"/"NO" decision is
\* reported for it, and its test raises no exception.
C2_DegenerateColumnCannotTest ==
    IsAnalyzerCall =>
        \A i \in DOMAIN out :
            (out[i].ev = "crosstab" /\ Size(out[i].table) > 0 /\ Degenerate(out[i].table))
                => /\ EventsOf(out[i].pos, "SI") = {}
                   /\ EventsOf(out[i].pos, "NO") = {}
                   /\ EventsOf(out[i].pos, "no_se_puede_evaluar") # {}
                   /\ ~(exc # NoExc /\ out[Len(out)].pos = out[i].pos)

\* C3: when every name of lista_cat (and the response) is a column of the
\* dataset, every column of the list is evaluated and reported and the call
\* ends normally, also when the test of an earlier column could not be computed.
C3_EveryColumnReported ==
    (IsAnalyzerCall /\ HasColumn(df, call.var_respuesta) /\ UnknownNames = {})
        => /\ exc = NoExc
           /\ \A k \in DOMAIN call.lista_cat :
                 EventsOf(k, "crosstab") # {} /\ EventsOf(k, "separador") # {}

\* The displayed integer v is a nearest integer of num / den.
IsNearest(v, num, den) == 2 * Abs(v * den - num) <= den

\* C4: for every tested column, with p-value p and significance level s: when
\* p < s exactly one "SI" and no "NO" is reported and the expected table, each
\* cell rounded to a nearest integer, is displayed once; when p >= s (p = s
\* included) exactly one "NO" and no "SI" is reported and no expected table is
\* displayed.
C4_DecisionRule ==
    IsAnalyzerCall =>
        \A n \in DOMAIN tests :
            LET k  == tests[n].pos
                e  == tests[n].expected
                si == EventsOf(k, "SI")
                no == EventsOf(k, "NO")
                ex == EventsOf(k, "expected")
            IN IF tests[n].p < call.sig_level
               THEN /\ Cardinality(si) = 1 /\ no = {} /\ Cardinality(ex) = 1
                    /\ \A i \in si : out[i].p = tests[n].p
                    /\ \A i \in ex : \A r \in DOMAIN e.num : \A c \in DOMAIN e.num[r] :
                          IsNearest(out[i].table.values[r][c], e.num[r][c], e.den)
               ELSE /\ si = {} /\ Cardinality(no) = 1 /\ ex = {}
                    /\ \A i \in no : out[i].p = tests[n].p

\* One call in which a column with p = s = 1 and a column with p < s were tested.
C4_Witness ==
    /\ IsAnalyzerCall
    /\ call.sig_level = PUnit
    /\ \E n \in DOMAIN tests : tests[n].p = call.sig_level /\ EventsOf(tests[n].pos, "NO") # {}
    /\ \E n \in DOMAIN tests : tests[n].p < call.sig_level /\ EventsOf(tests[n].pos, "expected") # {}

KindsOf(k) ==
    LET evs == SelectSeq(out, LAMBDA e : e.pos = k)
    IN [i \in DOMAIN evs |-> evs[i].ev]

CompleteReports ==
    { <<"evaluando", "crosstab", "SI", "expected", "separador">>,
      <<"evaluando", "crosstab", "NO", "separador">> }

\* C5: the emitted events follow the list: the events of list position k all
\* come before those of position k + 1, the positions reported are 1..m with no
\* gap, position k reports the k-th name of the list (duplicates as often as
\* they are listed), and within a position the observed table comes right after
\* the heading, before the decision, whatever the decision is; a report is cut
\* short only where the call raised, and a call that returns has reported every
\* position in full.
C5_ReportsFollowListOrder ==
    IsAnalyzerCall =>
        LET m == IF out = <<>> THEN 0 ELSE out[Len(out)].pos
        IN /\ \A i, j \in DOMAIN out : i < j => out[i].pos <= out[j].pos
           /\ m <= Len(call.lista_cat)
           /\ \A k \in 1..m :
                /\ \A i \in EventsOf(k, "evaluando") : out[i].col = Upper[call.lista_cat[k]]
                /\ \A i \in EventsOf(k, "crosstab") :
                      /\ out[i].col = call.lista_cat[k]
                      /\ out[i].table = Crosstab(df, call.lista_cat[k], call.var_respuesta)
                /\ \/ KindsOf(k) \in CompleteReports
                   \/ /\ k = m /\ exc.type = "ValueError"
                      /\ KindsOf(k) = <<"evaluando", "crosstab">>
                   \/ /\ k = m /\ exc.type = "KeyError"
                      /\ KindsOf(k) = <<"evaluando">>
           /\ exc = NoExc => (m = Len(call.lista_cat) /\ \A k \in 1..m : KindsOf(k) \in CompleteReports)

\* A call that reported two different columns, one significant and one not.
C5_Witness ==
    /\ IsAnalyzerCall
    /\ exc = NoExc
    /\ call.lista_cat[1] # call.lista_cat[2]
    /\ EventsOf(1, "NO") # {}
    /\ EventsOf(2, "SI") # {}

\* Pearson's statistic of an observed table: the sum over the cells of
\* (O - E)^2 / E with E = row total * column total / grand total.
PearsonOf(t) ==
    LET n  == GrandTotal(t)
        rs == RowTotals(t)
        cs == ColTotals(t)
    IN << SumSeq([i \in 1..NIndex(t) |-> SumSeq([j \in 1..NColumns(t) |->
                    (n * t.values[i][j] - rs[i] * cs[j]) * (n * t.values[i][j] - rs[i] * cs[j])
                    * (ProdSeq(rs) \div rs[i]) * (ProdSeq(cs) \div cs[j])])]),
          n * ProdSeq(rs) * ProdSeq(cs) >>

\* The same sum with every |O - E| reduced by 1/2, and by no more than |O - E|.
YatesOf(t) ==
    LET n  == GrandTotal(t)
        rs == RowTotals(t)
        cs == ColTotals(t)
    IN << SumSeq([i \in 1..NIndex(t) |-> SumSeq([j \in 1..NColumns(t) |->
                    LET gap  == 2 * Abs(n * t.values[i][j] - rs[i] * cs[j])
                        left == IF gap > n THEN gap - n ELSE 0
                    IN left * left * (ProdSeq(rs) \div rs[i]) * (ProdSeq(cs) \div cs[j])])]),
          4 * n * ProdSeq(rs) * ProdSeq(cs) >>

\* C6 as claimed: for every table tested, of any shape, the statistic is
\* Pearson's sum with no adjustment of the cell differences.
C6_StatisticIsPearson ==
    IsAnalyzerCall => \A n \in DOMAIN tests : RatEq(tests[n].chi2, PearsonOf(tests[n].observed))

\* C6 as amended: the statistic is Pearson's sum for every table whose degrees
\* of freedom are not 1, and for a table with 1 degree of freedom (2x2) it is
\* the sum with Yates' continuity correction.
C6_StatisticIsPearsonOrYates ==
    IsAnalyzerCall =>
        \A n \in DOMAIN tests :
            /\ tests[n].dof = (NIndex(tests[n].observed) - 1) * (NColumns(tests[n].observed) - 1)
            /\ IF tests[n].dof = 1
               THEN RatEq(tests[n].chi2, YatesOf(tests[n].observed))
               ELSE RatEq(tests[n].chi2, PearsonOf(tests[n].observed))

\* A 2x2 table whose statistic is positive and differs from Pearson's sum.
C6_Witness ==
    /\ IsAnalyzerCall
    /\ \E n \in DOMAIN tests :
          /\ tests[n].dof = 1
          /\ tests[n].chi2[1] > 0
          /\ ~RatEq(tests[n].chi2, PearsonOf(tests[n].observed))

\* C7: for every table tested the expected table has the shape of the observed
\* one, each of its row sums and column sums equals the observed one, so its
\* total equals the observed total, which is the number of rows of the dataset
\* where both the column and the response are present.
C7_ExpectedMargins ==
    IsAnalyzerCall =>
        \A n \in DOMAIN tests :
            LET o == tests[n].observed
                e == tests[n].expected
            IN /\ e.den > 0
               /\ DOMAIN e.num = DOMAIN o.values
               /\ \A i \in DOMAIN e.num :
                     /\ DOMAIN e.num[i] = DOMAIN o.values[i]
                     /\ SumSeq(e.num[i]) = e.den * SumSeq(o.values[i])
               /\ \A j \in 1..NColumns(o) :
                     SumSeq([i \in DOMAIN e.num |-> e.num[i][j]])
                       = e.den * SumSeq([i \in DOMAIN o.values |-> o.values[i][j]])
               /\ SumSeq([i \in DOMAIN e.num |-> SumSeq(e.num[i])])
                    = e.den * SumSeq([i \in DOMAIN o.values |-> SumSeq(o.values[i])])
               /\ SumSeq([i \in DOMAIN o.values |-> SumSeq(o.values[i])])
                    = Cardinality({k \in 1..NRows(df) :
                                     /\ df.rows[k][tests[n].col] # NULL
                                     /\ df.rows[k][call.var_respuesta] # NULL})

\* A tested 2x2 table with unequal row totals and an expected cell that is not
\* an integer.
C7_Witness ==
    /\ IsAnalyzerCall
    /\ \E n \in DOMAIN tests :
          /\ NIndex(tests[n].observed) = 2
          /\ NColumns(tests[n].observed) = 2
          /\ RowTotals(tests[n].observed)[1] # RowTotals(tests[n].observed)[2]
          /\ tests[n].expected.num[1][1] % tests[n].expected.den # 0

\* C8: a step that changes the dataset is a call of analisis_temporal: the
\* profiler, the analyzer and the other methods leave rows, columns, column
\* order, column types and cell values as they were, whether the call returns
\* or raises.
C8_OnlyTemporalWrites == [][df' # df => call'.op = "analisis_temporal"]_vars

\* The profiler raised, after calls of analisis_temporal had left no object
\* column, and the dataset is as it was when the call began.
C8_Witness ==
    /\ IsProfilerCall
    /\ exc.type = "ValueError"
    /\ NRows(df) > 0
    /\ df = pre
    /\ \E c \in Range(df.columns) : df.dtypes[c].kind = "category"

\* C9: in the null report a column is listed, once, exactly when it has a
\* missing value; its value is 100 * (its number of missing values) / (number of
\* rows); and the values do not increase down the report.
C9_NullReport ==
    IsProfilerCall =>
        \A i \in DOMAIN out :
            out[i].ev = "nulos" =>
                LET t == out[i].table
                    nulls(c) == Cardinality({k \in 1..NRows(df) : df.rows[k][c] = NULL})
                IN /\ \A c \in Range(df.columns) :
                         Cardinality({k \in DOMAIN t : t[k].col = c})
                           = IF nulls(c) > 0 THEN 1 ELSE 0
                   /\ \A k \in DOMAIN t :
                         /\ t[k].col \in Range(df.columns)
                         /\ t[k].pct = <<100 * nulls(t[k].col), NRows(df)>>
                   /\ \A k \in 1..(Len(t) - 1) :
                         t[k].pct[1] * t[k + 1].pct[2] >= t[k + 1].pct[1] * t[k].pct[2]

\* A report of two columns with different percentages.
C9_Witness ==
    /\ IsProfilerCall
    /\ \E i \in DOMAIN out :
          /\ out[i].ev = "nulos"
          /\ Len(out[i].table) = 2
          /\ ~RatEq(out[i].table[1].pct, out[i].table[2].pct)

\* What a call of analisis_temporal leaves alone: the rows' number, the columns
\* and their order, and every column but var_temporal.
TemporalFrame ==
    /\ NRows(df) = NRows(pre)
    /\ df.columns = pre.columns
    /\ \A c \in Range(pre.columns) :
          c # call.var_temporal =>
              /\ df.dtypes[c] = pre.dtypes[c]
              /\ \A k \in 1..NRows(pre) : df.rows[k][c] = pre.rows[k][c]

\* In var_temporal every row keeps a value that is in order and loses any other.
TemporalWritten ==
    HasColumn(pre, call.var_temporal) =>
        \A k \in 1..NRows(pre) :
            df.rows[k][call.var_temporal]
              = IF pre.rows[k][call.var_temporal] \in Range(call.order)
                THEN pre.rows[k][call.var_temporal] ELSE NULL

\* The same call made again leaves the dataset as this call left it.
TemporalRepeatable ==
    AnalisisTemporal(df, call.var_respuesta, call.var_temporal, call.order).df = df

====
